---------------------------- MODULE Spec2Model ----------------------------
(***************************************************************************)
(* Model of the three-phase sensor dashboard (src/main.py; src/src/main.py *)
(* is an earlier copy with the same functions).                            *)
(*                                                                         *)
(* Three specifications:                                                   *)
(*   SpecSeries     filter_outliers_from_series applied to a bounded       *)
(*                  series                                                 *)
(*   Spec           the Dash application: the dataframe DF loaded at       *)
(*                  start, the two controls, and the callback update_graph *)
(*                  that runs on every change of a control                 *)
(*   SpecFullFrame  Spec with DF holding every signal type of every phase  *)
(*                                                                         *)
(* Representation.  A pandas Series is a record [index, values] of two     *)
(* sequences of equal length; a DataFrame is a record [index, columns]     *)
(* where columns is a sequence of [name, values].  A column name is a      *)
(* sequence of one-character strings, so that col[-1] and col[1] are       *)
(* positions in it.  A float that may be NaN is a sequence: << >> is NaN,  *)
(* <<v>> is the number v.  Sample values are integers; the mean and the    *)
(* standard deviation are kept exact by scaling (see ScaledDev).           *)
(***************************************************************************)
EXTENDS Integers, Sequences, FiniteSets, TLC

VARIABLES
    ser,            \* SpecSeries: the argument of filter_outliers_from_series
    filtered,       \* SpecSeries: << >> before the call, <<result>> after it
    DF,             \* the module-level dataframe loaded from the CSV
    type_selection, \* value of the dropdown "type_selector"
    outlier_radio,  \* value of the radio "outlier_radio"
    tdf,            \* update_graph's local tdf of the last call
    call,           \* the last make_figure execution: how it ended, the grid's
                    \* rows and the row_num of every column it processed
    response        \* what the last update_graph call gave back to Dash

vars == <<ser, filtered, DF, type_selection, outlier_radio, tdf, call, response>>

-----------------------------------------------------------------------------
(* Bounds of the model *)

\* longest series handed to filter_outliers_from_series in SpecSeries
\* (a sample can lie more than three sample standard deviations from the
\* mean only in a series of at least 11 samples)
MaxLen == 11
\* most columns in the dataframe DF (besides the full twelve-column frame)
MaxCols == 2

-----------------------------------------------------------------------------
(* Helpers on sequences *)

RECURSIVE SeqSum(_)
SeqSum(s) == IF s = << >> THEN 0 ELSE Head(s) + SeqSum(Tail(s))

Range(s) == { s[k] : k \in 1..Len(s) }

\* position of the first element of s equal to x (list.index), 0 when absent
RECURSIVE IndexOf(_, _, _)
IndexOf(s, x, k) ==
    IF k > Len(s) THEN 0
    ELSE IF s[k] = x THEN k
    ELSE IndexOf(s, x, k + 1)

\* the entries of s at the positions where mask is TRUE, in order
RECURSIVE SelectByMask(_, _)
SelectByMask(s, mask) ==
    IF s = << >> THEN << >>
    ELSE IF Head(mask)
         THEN <<Head(s)>> \o SelectByMask(Tail(s), Tail(mask))
         ELSE SelectByMask(Tail(s), Tail(mask))

RECURSIVE SeqMin(_)
SeqMin(s) ==
    IF Len(s) = 1 THEN s[1]
    ELSE LET m == SeqMin(Tail(s)) IN IF s[1] < m THEN s[1] ELSE m

RECURSIVE SeqMax(_)
SeqMax(s) ==
    IF Len(s) = 1 THEN s[1]
    ELSE LET m == SeqMax(Tail(s)) IN IF s[1] > m THEN s[1] ELSE m

-----------------------------------------------------------------------------
(* filter_outliers_from_series *)

\* the constant 3 of "3*std"
StdFactor == 3

\* ser.std() is the sample standard deviation (ddof = 1): NaN for a series
\* of n < 2 samples.  (ser.mean() is NaN only for the empty series.)
StdIsNaN(n) == n < 2

\* n * (x - mu), where n = len(ser), total = ser.sum() and mu = total/n
ScaledDev(n, total, x) == n * x - total

\* sum of the squares of ScaledDev = n^2 * (n-1) * std^2
SumSqDev(values) ==
    LET n     == Len(values)
        total == SeqSum(values)
    IN  SeqSum([k \in 1..n |-> ScaledDev(n, total, values[k]) * ScaledDev(n, total, values[k])])

\* |x - mu| <= 3*std with both sides multiplied by n and squared:
\* (n-1) * (n(x-mu))^2 <= 9 * (n^2 (n-1) std^2), for ss = SumSqDev
WithinLimitDistance(n, total, ss, x) ==
    (n - 1) * ScaledDev(n, total, x) * ScaledDev(n, total, x) <= StdFactor * StdFactor * ss

\* variant of GeLowerLimit with the strict comparison x > lower_limit
GeLowerLimitStrict(n, total, ss, x) ==
    /\ ~StdIsNaN(n)
    /\ \/ ScaledDev(n, total, x) > 0
       \/ ScaledDev(n, total, x) = 0 /\ ss > 0
       \/ (n - 1) * ScaledDev(n, total, x) * ScaledDev(n, total, x) < StdFactor * StdFactor * ss

\* x >= lower_limit, lower_limit = mu - 3*std; a comparison with NaN is False
GeLowerLimit(n, total, ss, x) ==
    /\ ~StdIsNaN(n)
    /\ \/ ScaledDev(n, total, x) >= 0
       \/ WithinLimitDistance(n, total, ss, x)

\* x <= upper_limit, upper_limit = mu + 3*std; a comparison with NaN is False
LeUpperLimit(n, total, ss, x) ==
    /\ ~StdIsNaN(n)
    /\ \/ ScaledDev(n, total, x) <= 0
       \/ WithinLimitDistance(n, total, ss, x)

\* fltr = (ser >= lower_limit) & (ser <= upper_limit)
OutlierMask(values) ==
    LET n     == Len(values)
        total == SeqSum(values)
        ss    == SumSqDev(values)
    IN  [k \in 1..n |-> /\ GeLowerLimit(n, total, ss, values[k])
                        /\ LeUpperLimit(n, total, ss, values[k])]

\* ser.loc[fltr]: the kept samples with their index labels
filter_outliers_from_series(s) ==
    LET fltr == OutlierMask(s.values)
    IN  [index  |-> SelectByMask(s.index, fltr),
         values |-> SelectByMask(s.values, fltr)]

-----------------------------------------------------------------------------
(* The dataframe and the controls *)

\* label_dict: signal type -> label; its keys are the dropdown's options
label_dict == [sym \in {"p", "q", "i", "v"} |->
                 CASE sym = "p" -> "real power"
                   [] sym = "q" -> "imaginary power"
                   [] sym = "i" -> "current"
                   [] sym = "v" -> "voltage"]

\* list(label_dict.keys()): the dropdown's initial value
LabelKeys == <<"p", "q", "i", "v">>

\* color_dict: phase number -> line colour
color_dict == [n \in {1, 2, 3} |->
                 CASE n = 1 -> "red"
                   [] n = 2 -> "blue"
                   [] n = 3 -> "green"]

\* int(c) for a one-character string c
IntOfDigit(c) ==
    CASE c = "0" -> 0 [] c = "1" -> 1 [] c = "2" -> 2 [] c = "3" -> 3 [] c = "4" -> 4
      [] c = "5" -> 5 [] c = "6" -> 6 [] c = "7" -> 7 [] c = "8" -> 8 [] c = "9" -> 9

\* the options of the radio "outlier_radio"
RadioValues == {"include", "remove"}

\* Column names of the CSV.  The file itself is data outside the source; the
\* code fixes only what it reads of a name: the phase digit at col[1] and
\* the signal type at col[-1].  The names here are a letter, the phase digit
\* and the signal type, phase by phase.
AllColumnNames ==
    << <<"L", "1", "p">>, <<"L", "1", "q">>, <<"L", "1", "i">>, <<"L", "1", "v">>,
       <<"L", "2", "p">>, <<"L", "2", "q">>, <<"L", "2", "i">>, <<"L", "2", "v">>,
       <<"L", "3", "p">>, <<"L", "3", "q">>, <<"L", "3", "i">>, <<"L", "3", "v">> >>

\* The sample columns a dataframe of the model is filled with: a zero
\* series, series with minimum 0 or maximum 0 only, series without a zero,
\* and one-row series.
DataShapes ==
    { <<2>>, <<0, 0>>, <<0, 2>>, <<-1, 0>>, <<1, 2>> }

\* the dataframe with the columns of AllColumnNames at the positions in pick,
\* every column holding the samples shape
FrameOf(pick, shape) ==
    [index   |-> [k \in 1..Len(shape) |-> k],
     columns |-> SelectByMask([k \in 1..Len(AllColumnNames) |->
                                  [name |-> AllColumnNames[k], values |-> shape]],
                              [k \in 1..Len(AllColumnNames) |-> k \in pick])]

\* The dataframes DF may be after load_and_prep_data: up to MaxCols value
\* columns, or all twelve.
DataFrames ==
    { FrameOf(pick, shape) :
        pick \in { P \in SUBSET (1..Len(AllColumnNames)) :
                     \/ 1 <= Cardinality(P) /\ Cardinality(P) <= MaxCols
                     \/ P = 1..Len(AllColumnNames) },
        shape \in DataShapes }

EmptyFrame == [index |-> << >>, columns |-> << >>]
EmptySeries == [index |-> << >>, values |-> << >>]

\* df.columns
ColumnsOf(df) == [k \in 1..Len(df.columns) |-> df.columns[k].name]

\* df[col]
ColumnSeries(df, col) ==
    LET k == IndexOf(ColumnsOf(df), col, 1)
    IN  [index |-> df.index, values |-> df.columns[k].values]

-----------------------------------------------------------------------------
(* filter_df_cols *)

\* variant of LastCharSelected that tests the first character, col[0]
FirstCharSelected(col, sel) == col[1] \in Range(sel)

\* col[-1] in type_selection
LastCharSelected(col, sel) == col[Len(col)] \in Range(sel)

\* the loop building selected_cols: the names of df, in df's order, whose
\* last character is selected
SelectedCols(df, sel) ==
    SelectByMask(ColumnsOf(df),
                 [k \in 1..Len(df.columns) |-> LastCharSelected(df.columns[k].name, sel)])

\* df.loc[:, selected_cols]: a new frame of all rows and the named columns
filter_df_cols(df, sel) ==
    LET selected_cols == SelectedCols(df, sel)
    IN  [index   |-> df.index,
         columns |-> [k \in 1..Len(selected_cols) |->
                        df.columns[IndexOf(ColumnsOf(df), selected_cols[k], 1)]]]

-----------------------------------------------------------------------------
(* make_figure *)

\* height per subplot row and the figure width in update_layout
RowHeight == 200
FigWidth == 600

\* y.min(), y.max(): NaN (<< >>) for an empty series
SeriesMin(y) == IF y.values = << >> THEN << >> ELSE <<SeqMin(y.values)>>
SeriesMax(y) == IF y.values = << >> THEN << >> ELSE <<SeqMax(y.values)>>

\* Python truth value of a float: only 0 is false (NaN is true)
Truthy(f) == f = << >> \/ f[1] # 0

\* a and b: a when a is false, else b
PyAnd(a, b) == IF Truthy(a) THEN b ELSE a

\* is_non_zero = (y.min() and y.max()) != 0      (NaN != 0 is True)
IsNonZero(y) ==
    LET f == PyAnd(SeriesMin(y), SeriesMax(y))
    IN  f = << >> \/ f[1] # 0

\* visible_setting = True if is_non_zero else 'legendonly'
VisibleSetting(y) == IF IsNonZero(y) THEN "True" ELSE "legendonly"

\* subplot_titles = [f"{label_dict[sym]} ({sym})" for sym in type_selection]
SubplotTitles(sel) == [k \in 1..Len(sel) |-> <<label_dict[sel[k]], sel[k]>>]

\* rows=len(val_cols) in the call of make_subplots
GridRows(val_cols) == Len(val_cols)

\* row_num = type_selection.index(val_type) + 1   (index is 0-based)
RowNum(sel, val_type) == (IndexOf(sel, val_type, 1) - 1) + 1

\* phase_num = int(col[1])
PhaseNum(col) == IntOfDigit(col[2])

\* variant of TraceColor keyed by the subplot row of the signal type
TraceColorByType(col) == color_dict[((IndexOf(LabelKeys, col[Len(col)], 1) - 1) % 3) + 1]

\* color = color_dict[phase_num]
TraceColor(col) == color_dict[PhaseNum(col)]

\* y = df[col], filtered when filter_outliers
PlottedSeries(df, col, filter_outliers) ==
    IF filter_outliers THEN filter_outliers_from_series(ColumnSeries(df, col))
    ELSE ColumnSeries(df, col)

\* One pass of the loop body for val_cols[k], then the rest of the loop.
\* st holds the loop's state: the traces added, legend_lst, the row_num
\* computed for each column, and whether add_trace raised (plotly raises
\* when row is larger than the grid's number of rows).
RECURSIVE TraceLoop(_, _, _, _, _, _)
TraceLoop(df, sel, filter_outliers, rows, k, st) ==
    IF k > Len(df.columns) \/ st.raised THEN st
    ELSE
      LET col       == df.columns[k].name
          y         == PlottedSeries(df, col, filter_outliers)
          phase_num == PhaseNum(col)
          val_type  == col[Len(col)]
          row_num   == RowNum(sel, val_type)
          group     == <<"phase", phase_num>>
          trace     == [x           |-> y.index,
                        y           |-> y.values,
                        legendgroup |-> group,
                        name        |-> group,
                        showlegend  |-> group \notin Range(st.legend_lst),
                        visible     |-> VisibleSetting(y),
                        line        |-> [color |-> TraceColor(col)],
                        row         |-> row_num,
                        col         |-> 1]
          legend    == IF group \in Range(st.legend_lst) THEN st.legend_lst
                       ELSE Append(st.legend_lst, group)
          in_grid   == 1 <= row_num /\ row_num <= rows
      IN  TraceLoop(df, sel, filter_outliers, rows, k + 1,
                    [traces     |-> IF in_grid THEN Append(st.traces, trace) ELSE st.traces,
                     legend_lst |-> legend,
                     row_nums   |-> Append(st.row_nums, row_num),
                     raised     |-> ~in_grid])

\* height=(200*(i+1)), i the last value of the loop counter (0-based)
FigHeight(val_cols) == RowHeight * ((Len(val_cols) - 1) + 1)

\* make_figure.  make_subplots raises for rows = 0 (and with no loop pass
\* the name i of the last line is unbound); add_trace raises for a row
\* outside the grid.
make_figure(df, sel, filter_outliers) ==
    LET val_cols == ColumnsOf(df)
        rows     == GridRows(val_cols)
        start    == [traces |-> << >>, legend_lst |-> << >>, row_nums |-> << >>,
                     raised |-> FALSE]
        st       == IF rows < 1 THEN start
                    ELSE TraceLoop(df, sel, filter_outliers, rows, 1, start)
    IN  [state    |-> IF rows < 1 \/ st.raised THEN "raised" ELSE "returned",
         rows     |-> rows,
         row_nums |-> st.row_nums,
         fig      |-> [rows           |-> rows,
                       subplot_titles |-> SubplotTitles(sel),
                       traces         |-> st.traces,
                       height         |-> FigHeight(val_cols),
                       width          |-> FigWidth]]

NoCall == [state |-> "none", rows |-> 0, row_nums |-> << >>]

-----------------------------------------------------------------------------
(* update_graph, the callback of both controls *)

\* outlier_radio_bool = False if outlier_radio=='include' else True
OutlierRadioBool(radio) == radio # "include"

\* the callback's effect for the control values sel and radio
UpdateGraph(sel, radio) ==
    \E t \in {filter_df_cols(DF, sel)} :
      \E c \in {make_figure(t, sel, OutlierRadioBool(radio))} :
        /\ tdf' = t
        /\ call' = [state |-> c.state, rows |-> c.rows, row_nums |-> c.row_nums]
        /\ response' = IF c.state = "returned"
                       THEN [state |-> "returned", value |-> <<c.fig>>]
                       ELSE [state |-> "raised", value |-> << >>]

\* Dash runs the callback once with the controls' initial values
InitialCallback ==
    /\ response.state = "none"
    /\ UpdateGraph(type_selection, outlier_radio)
    /\ UNCHANGED <<ser, filtered, DF, type_selection, outlier_radio>>

\* the user adds a signal type to the multi-select: it is appended
SelectType(t) ==
    /\ response.state # "none"
    /\ t \notin Range(type_selection)
    /\ \E sel \in {Append(type_selection, t)} :
         /\ type_selection' = sel
         /\ UpdateGraph(sel, outlier_radio)
    /\ UNCHANGED <<ser, filtered, DF, outlier_radio>>

\* the user removes one signal type from the multi-select
DeselectType(t) ==
    /\ response.state # "none"
    /\ t \in Range(type_selection)
    /\ \E sel \in {SelectByMask(type_selection,
                        [k \in 1..Len(type_selection) |-> type_selection[k] # t])} :
         /\ type_selection' = sel
         /\ UpdateGraph(sel, outlier_radio)
    /\ UNCHANGED <<ser, filtered, DF, outlier_radio>>

\* the user clears the multi-select
ClearSelection ==
    /\ response.state # "none"
    /\ type_selection # << >>
    /\ type_selection' = << >>
    /\ UpdateGraph(<< >>, outlier_radio)
    /\ UNCHANGED <<ser, filtered, DF, outlier_radio>>

\* the user picks the other radio value
SetOutlierRadio(v) ==
    /\ response.state # "none"
    /\ v # outlier_radio
    /\ outlier_radio' = v
    /\ UpdateGraph(type_selection, v)
    /\ UNCHANGED <<ser, filtered, DF, type_selection>>

Init ==
    /\ DF \in DataFrames
    /\ type_selection = LabelKeys
    /\ outlier_radio = "include"
    /\ tdf = EmptyFrame
    /\ call = NoCall
    /\ response = [state |-> "none", value |-> << >>]
    /\ ser = EmptySeries
    /\ filtered = << >>

Next ==
    \/ InitialCallback
    \/ \E t \in Range(LabelKeys) : SelectType(t)
    \/ \E t \in Range(LabelKeys) : DeselectType(t)
    \/ ClearSelection
    \/ \E v \in RadioValues : SetOutlierRadio(v)

Spec == Init /\ [][Next]_vars

-----------------------------------------------------------------------------
(* SpecSeries: filter_outliers_from_series on every bounded series *)

RECURSIVE SeqsUpTo(_, _)
SeqsUpTo(S, n) ==
    IF n = 0 THEN { << >> }
    ELSE LET shorter == SeqsUpTo(S, n - 1)
         IN  shorter \cup { Append(s, x) : s \in { q \in shorter : Len(q) = n - 1 }, x \in S }

\* the sample values of the series of SpecSeries
SampleValues == {0, 1}

BoundedSeries ==
    { [index |-> [k \in 1..Len(v) |-> k], values |-> v] : v \in SeqsUpTo(SampleValues, MaxLen) }

InitSeries ==
    /\ ser \in BoundedSeries
    /\ filtered = << >>
    /\ DF = EmptyFrame
    /\ type_selection = LabelKeys
    /\ outlier_radio = "include"
    /\ tdf = EmptyFrame
    /\ call = NoCall
    /\ response = [state |-> "none", value |-> << >>]

FilterSeries ==
    /\ filtered = << >>
    /\ filtered' = <<filter_outliers_from_series(ser)>>
    /\ UNCHANGED <<ser, DF, type_selection, outlier_radio, tdf, call, response>>

NextSeries == FilterSeries

SpecSeries == InitSeries /\ [][NextSeries]_vars

-----------------------------------------------------------------------------
(* SpecFullFrame: the application over a CSV that holds every signal type *)
(* of every phase                                                          *)

InitFullFrame ==
    /\ Init
    /\ Len(DF.columns) = Len(AllColumnNames)

SpecFullFrame == InitFullFrame /\ [][Next]_vars

-----------------------------------------------------------------------------
(* Vocabulary of the properties *)

\* sample k of ser is in the filtered series, under its own index label
Kept(k) ==
    \E j \in 1..Len(filtered[1].values) :
        /\ filtered[1].index[j] = ser.index[k]
        /\ filtered[1].values[j] = ser.values[k]

\* n^2 (n-1) (x - mean)^2 and 9 n^2 (n-1) std^2 for sample k of ser: the two
\* sides of "(x - mean)^2 against (3 std)^2" over a common positive factor
SqDistance(k) ==
    (Len(ser.values) - 1)
        * (Len(ser.values) * ser.values[k] - SeqSum(ser.values))
        * (Len(ser.values) * ser.values[k] - SeqSum(ser.values))

SqThreeStd ==
    9 * SeqSum([k \in 1..Len(ser.values) |->
                  (Len(ser.values) * ser.values[k] - SeqSum(ser.values))
                    * (Len(ser.values) * ser.values[k] - SeqSum(ser.values))])

\* the index labels of the filtered series are in ascending order
IndexAscending ==
    \A i, j \in 1..Len(filtered[1].index) :
        i < j => filtered[1].index[i] < filtered[1].index[j]

ConstantSeries == \A i, j \in 1..Len(ser.values) : ser.values[i] = ser.values[j]

\* the figure of the last callback (when it returned)
Fig == response.value[1]

\* position of column name col in DF
PosInDF(col) == CHOOSE k \in 1..Len(DF.columns) : DF.columns[k].name = col

-----------------------------------------------------------------------------
(* C1 *)

\* C1 (as claimed): filter_outliers_from_series returns the samples of ser in
\* their order and under their index, and removes a sample if and only if
\* its value lies more than three sample standard deviations from the mean
\* of the whole series.
C1_RemovedIffMoreThanThreeStd ==
    filtered # << >> =>
        /\ IndexAscending
        /\ Len(filtered[1].index) = Len(filtered[1].values)
        /\ \A k \in 1..Len(ser.values) : ~Kept(k) <=> SqDistance(k) > SqThreeStd

-----------------------------------------------------------------------------
(* C6 *)

-----------------------------------------------------------------------------
(* C2 *)

\* what filter_df_cols(DF, type_selection) left in tdf: every row, every
\* column of DF whose name ends in a selected type and no other column,
\* in DF's column order
ReturnedColumnsAsClaimed ==
    response.state # "none" =>
        /\ tdf.index = DF.index
        /\ \A j \in 1..Len(tdf.columns) :
              /\ \E k \in 1..Len(DF.columns) : DF.columns[k] = tdf.columns[j]
              /\ \E m \in 1..Len(type_selection) :
                    tdf.columns[j].name[Len(tdf.columns[j].name)] = type_selection[m]
        /\ \A k \in 1..Len(DF.columns) :
              (\E m \in 1..Len(type_selection) :
                    DF.columns[k].name[Len(DF.columns[k].name)] = type_selection[m])
                => \E j \in 1..Len(tdf.columns) : tdf.columns[j] = DF.columns[k]
        /\ \A i, j \in 1..Len(tdf.columns) :
              i < j => PosInDF(tdf.columns[i].name) < PosInDF(tdf.columns[j].name)

\* C2: filter_df_cols returns exactly the columns of df whose name ends in a
\* selected signal type, in df's column order whatever the order of the
\* selection, with every row; other columns are never returned; and df
\* itself is left as it was.
C2_ColumnsBySuffixInFrameOrder ==
    /\ []ReturnedColumnsAsClaimed
    /\ [][DF' = DF]_vars

\* some columns are returned and some are not, and the returned columns
\* stand in the opposite order to their types in the selection
C2_Witness ==
    /\ response.state # "none"
    /\ Len(tdf.columns) >= 2
    /\ Len(tdf.columns) < Len(DF.columns)
    /\ \E i, j \in 1..Len(tdf.columns) :
          /\ i < j
          /\ IndexOf(type_selection, tdf.columns[i].name[3], 1)
                > IndexOf(type_selection, tdf.columns[j].name[3], 1)

-----------------------------------------------------------------------------
(* C3 *)

\* C3 (as claimed): a returned figure has as many subplot rows as signal
\* types were selected, as many as it has subplot titles, and a height of
\* 200 pixels per selected signal type.
C3_OneRowPerSignalType ==
    response.state = "returned" =>
        /\ Fig.rows = Len(type_selection)
        /\ Fig.rows = Len(Fig.subplot_titles)
        /\ Fig.height = 200 * Len(type_selection)

-----------------------------------------------------------------------------
(* C4 *)

\* C4 (as claimed): whatever the user selects, update_graph returns a
\* one-element tuple holding a figure; it never raises.
C4_CallbackAlwaysReturns ==
    response.state # "none" =>
        /\ response.state = "returned"
        /\ Len(response.value) = 1

-----------------------------------------------------------------------------
(* C5 *)

\* the colour the claim gives a phase digit
ClaimedColour(digit) ==
    CASE digit = "1" -> "red" [] digit = "2" -> "blue" [] digit = "3" -> "green"

\* C5: a returned figure holds one trace per column of the filtered
\* dataframe, in column order (the trace of a column carries the column's
\* phase as its legend group and, with outliers included, the column's
\* samples), and a trace's colour is the colour of its column's phase digit:
\* 1 red, 2 blue, 3 green, so that two traces share a colour exactly when
\* they share a phase.
C5_OneTracePerColumnColouredByPhase ==
    response.state = "returned" =>
        /\ Len(Fig.traces) = Len(tdf.columns)
        /\ \A k \in 1..Len(Fig.traces) :
              /\ Fig.traces[k].line.color = ClaimedColour(tdf.columns[k].name[2])
              /\ outlier_radio = "include" => Fig.traces[k].y = tdf.columns[k].values
        /\ \A j, k \in 1..Len(Fig.traces) :
              Fig.traces[j].line.color = Fig.traces[k].line.color
                <=> tdf.columns[j].name[2] = tdf.columns[k].name[2]

\* a returned figure with two traces of one phase and traces of all three
\* phases
C5_Witness ==
    /\ response.state = "returned"
    /\ \E j, k \in 1..Len(Fig.traces) :
          j # k /\ Fig.traces[j].line.color = Fig.traces[k].line.color
    /\ { Fig.traces[k].line.color : k \in 1..Len(Fig.traces) } = {"red", "blue", "green"}

-----------------------------------------------------------------------------
(* C7 *)

\* C7 (as claimed): a trace starts as 'legendonly' if and only if every
\* sample it plots is 0.
C7_LegendOnlyIffZeroSeries ==
    response.state = "returned" =>
        \A k \in 1..Len(Fig.traces) :
            Fig.traces[k].visible = "legendonly"
              <=> /\ Fig.traces[k].y # << >>
                  /\ \A i \in 1..Len(Fig.traces[k].y) : Fig.traces[k].y[i] = 0

-----------------------------------------------------------------------------
(* C8 *)

\* C8 (as claimed): for every column make_figure processes, the row of its
\* trace is the position of the column's signal type in type_selection
\* (counted from 1), and that row lies within the rows of the figure's grid.
C8_RowWithinGrid ==
    call.state # "none" =>
        \A k \in 1..Len(call.row_nums) :
            /\ type_selection[call.row_nums[k]] = tdf.columns[k].name[Len(tdf.columns[k].name)]
            /\ 1 <= call.row_nums[k]
            /\ call.row_nums[k] <= call.rows

=============================================================================
